---- MODULE Spec2Model ----
(***************************************************************************)
(* Model of ls.joyous.utils.recurrence: the Weekday descriptor and the     *)
(* Recurrence wrapper around a dateutil rrule (construction, accessors,    *)
(* serialization and re-parsing, iteration, counting, and the              *)
(* natural-language description).                                          *)
(***************************************************************************)
EXTENDS Integers, Sequences, FiniteSets, TLC

VARIABLES
    rule,       \* the rrule object the Recurrence under test wraps (self.rule)
    text,       \* the last result of repr(), or the string handed to Recurrence(str)
    forceset,   \* the forceset keyword handed on to rrulestr
    made,       \* outcome of Recurrence(text): [err, rule]
    gens,       \* reader -> generator frame of one running Recurrence._iter()
    out,        \* reader -> the dates that reader has been handed so far
    counted,    \* last result of getCount(), or None
    copies,     \* number of Recurrence(arg0) copies made; all share `rule`
    when,       \* last call of Recurrence._getWhen: its arguments and result
    wd,         \* the Weekday under test
    wdWhen      \* last result of Weekday._getWhen: [offset, text]

vars == <<rule, text, forceset, made, gens, out, counted, copies, when, wd,
          wdWhen>>

\* Optional values: None is the empty tuple, a present value v is <<v>>.
None == <<>>
Some(v) == <<v>>
IsNone(o) == o = <<>>
Val(o) == o[1]

\* dateutil.rrule frequency constants
YEARLY == 0
MONTHLY == 1
WEEKLY == 2
DAILY == 3

(***************************************************************************)
(* Bounds of the model                                                     *)
(***************************************************************************)
\* Last year the generator may reach; stands in for datetime.MAXYEAR.
MAXYEAR == 2010
\* Largest interval, count and numDays drawn as inputs.
MaxInterval == 3
MaxCount == 3
\* A reader stops asking for dates after this many.
MaxYield == 4
\* Largest |offset| handed to the describe operations.
MaxOffset == 3
\* Number of Recurrence(arg0) copies made of one rule.
MaxCopies == 1

(***************************************************************************)
(* Sequences and sets                                                      *)
(***************************************************************************)
Range(s) == {s[i] : i \in 1..Len(s)}

Min(S) == CHOOSE x \in S : \A y \in S : x <= y

RECURSIVE SortedSeq(_)
\* tuple(sorted(S)) for a set of integers
SortedSeq(S) == IF S = {} THEN <<>> ELSE <<Min(S)>> \o SortedSeq(S \ {Min(S)})

IsPrefix(s, t) == Len(s) <= Len(t) /\ \A i \in 1..Len(s) : s[i] = t[i]

(***************************************************************************)
(* The proleptic Gregorian calendar (datetime.date)                        *)
(***************************************************************************)
IsLeap(y) == (y % 4 = 0) /\ ((y % 100 # 0) \/ (y % 400 = 0))

DaysInMonth(y, m) ==
    IF m = 2 THEN (IF IsLeap(y) THEN 29 ELSE 28)
    ELSE IF m \in {4, 6, 9, 11} THEN 30 ELSE 31

YearLen(y) == IF IsLeap(y) THEN 366 ELSE 365

DaysBeforeYear(y) ==
    LET p == y - 1 IN p * 365 + (p \div 4) - (p \div 100) + (p \div 400)

DaysBeforeMonth(y, m) ==
    LET F[k \in 1..12] == IF k = 1 THEN 0 ELSE F[k-1] + DaysInMonth(y, k-1)
    IN F[m]

Date(y, m, d) == [year |-> y, month |-> m, day |-> d]

\* date.toordinal()
ToOrdinal(dt) ==
    DaysBeforeYear(dt.year) + DaysBeforeMonth(dt.year, dt.month) + dt.day

\* date.weekday(): 0 is Monday
DateWeekday(dt) == (ToOrdinal(dt) + 6) % 7

\* The date that is day-of-year index i (0-based) of year y; an index past
\* the end of the year runs on into the next year.
RECURSIVE FromYearDay(_, _)
FromYearDay(y, i) ==
    IF i >= YearLen(y) THEN FromYearDay(y + 1, i - YearLen(y))
    ELSE LET m == CHOOSE k \in 1..12 :
                    /\ DaysBeforeMonth(y, k) <= i
                    /\ i < DaysBeforeMonth(y, k) + DaysInMonth(y, k)
         IN Date(y, m, i - DaysBeforeMonth(y, m) + 1)

YearDay(dt) == DaysBeforeMonth(dt.year, dt.month) + dt.day - 1

\* date + timedelta(days=n)
RECURSIVE AddDays(_, _)
AddDays(dt, n) ==
    IF n = 0 THEN dt
    ELSE IF n > 0
    THEN IF dt.day + n <= DaysInMonth(dt.year, dt.month)
         THEN Date(dt.year, dt.month, dt.day + n)
         ELSE LET used == DaysInMonth(dt.year, dt.month) - dt.day + 1
                  ny == IF dt.month = 12 THEN dt.year + 1 ELSE dt.year
                  nm == IF dt.month = 12 THEN 1 ELSE dt.month + 1
              IN AddDays(Date(ny, nm, 1), n - used)
    ELSE IF dt.day + n >= 1
         THEN Date(dt.year, dt.month, dt.day + n)
         ELSE LET py == IF dt.month = 1 THEN dt.year - 1 ELSE dt.year
                  pm == IF dt.month = 1 THEN 12 ELSE dt.month - 1
              IN AddDays(Date(py, pm, DaysInMonth(py, pm)), n + dt.day)

DateLE(a, b) == ToOrdinal(a) <= ToOrdinal(b)
DateLT(a, b) == ToOrdinal(a) < ToOrdinal(b)

(***************************************************************************)
(* Lookup tables and phrase helpers of the sibling modules names,          *)
(* manythings and telltime                                                 *)
(***************************************************************************)
WEEKDAY_NAMES ==
    <<"Monday", "Tuesday", "Wednesday", "Thursday", "Friday", "Saturday",
      "Sunday">>

WEEKDAY_NAMES_PLURAL ==
    <<"Mondays", "Tuesdays", "Wednesdays", "Thursdays", "Fridays",
      "Saturdays", "Sundays">>

MONTH_NAMES ==
    <<"January", "February", "March", "April", "May", "June", "July",
      "August", "September", "October", "November", "December">>

\* MONTH_NAMES with December before January and January after December,
\* indexed 0..13.
WRAPPED_MONTH_NAMES ==
    [i \in 0..13 |-> IF i = 0 THEN "December"
                     ELSE IF i = 13 THEN "January" ELSE MONTH_NAMES[i]]

Abs(n) == IF n < 0 THEN -n ELSE n

OrdinalSuffix(n) ==
    LET a == Abs(n) IN
    IF (a % 100) \in {11, 12, 13} THEN "th"
    ELSE IF a % 10 = 1 THEN "st"
    ELSE IF a % 10 = 2 THEN "nd"
    ELSE IF a % 10 = 3 THEN "rd" ELSE "th"

\* "1st", "2nd", "3rd", "4th", ...
toOrdinal(n) == ToString(n) \o OrdinalSuffix(n)

\* "the 1st", "the 2nd", ... (inTitleCase is False at the only call)
toTheOrdinal(n) == "the " \o toOrdinal(n)

\* "X", "X and Y", "X, Y and Z"
hrJoin(items) ==
    LET n == Len(items)
        F[i \in 0..n] ==
            IF i = 0 THEN ""
            ELSE IF i = 1 THEN items[1]
            ELSE IF i = n THEN F[i-1] \o " and " \o items[i]
            ELSE F[i-1] \o ", " \o items[i]
    IN F[n]

\* "29th of March 1990"
dateFormatDMY(dt) ==
    toOrdinal(dt.day) \o " of " \o MONTH_NAMES[dt.month] \o " "
        \o ToString(dt.year)

(***************************************************************************)
(* class Weekday(rrweekday)                                                *)
(***************************************************************************)
\* A weekday value: weekday in 0..6, n a nonzero integer or unset.  dateutil
\* refuses n = 0 and the class tests n only by truth, so 0 stands for None.
Weekday(w, n) == [weekday |-> w, n |-> n]

\* `not self.n`
NoN(w) == w.n = 0

WEEKDAY_CODES == <<"MO", "TU", "WE", "TH", "FR", "SA", "SU">>

RECURSIVE Digits(_)
\* The decimal digits of a natural number, as a sequence of characters.
Digits(n) ==
    IF n < 10 THEN <<ToString(n)>> ELSE Digits(n \div 10) \o <<ToString(n % 10)>>

\* Weekday.__repr__: the code, after "{:+d}" of n when n is set.  The result
\* is the sequence of the text's tokens: sign, digits, two-letter code.
Weekday_repr(w) ==
    LET s == WEEKDAY_CODES[w.weekday + 1] IN
    IF NoN(w) THEN <<s>>
    ELSE <<IF w.n < 0 THEN "-" ELSE "+">> \o Digits(Abs(w.n)) \o <<s>>

\* Weekday._getWhen with the direction of the offset lost in the weekday
\* arithmetic.
Weekday_getWhen_AbsOffset(w, offset, names) ==
    LET weekday == names[w.weekday + 1] IN
    IF offset = 0
    THEN IF NoN(w) THEN weekday
         ELSE toOrdinal(w.n) \o " " \o weekday
    ELSE LET localWeekday == names[((w.weekday + Abs(offset)) % 7) + 1] IN
         IF NoN(w) THEN localWeekday
         ELSE IF offset < 0
              THEN localWeekday \o " before the " \o toOrdinal(w.n) \o " "
                       \o weekday
              ELSE localWeekday \o " after the " \o toOrdinal(w.n) \o " "
                       \o weekday

\* Weekday._getWhen(offset, names)
Weekday_getWhen(w, offset, names) ==
    LET weekday == names[w.weekday + 1] IN
    IF offset = 0
    THEN IF NoN(w) THEN weekday
         ELSE toOrdinal(w.n) \o " " \o weekday
    ELSE LET localWeekday == names[((w.weekday + offset) % 7) + 1] IN
         IF NoN(w) THEN localWeekday
         ELSE IF offset < 0
              THEN localWeekday \o " before the " \o toOrdinal(w.n) \o " "
                       \o weekday
              ELSE localWeekday \o " after the " \o toOrdinal(w.n) \o " "
                       \o weekday

\* Weekday._getPluralWhen reading the singular names.
Weekday_getPluralWhen_Singular(w, offset) ==
    Weekday_getWhen(w, offset, WEEKDAY_NAMES)

\* Weekday._getPluralWhen(offset)
Weekday_getPluralWhen(w, offset) ==
    Weekday_getWhen(w, offset, WEEKDAY_NAMES_PLURAL)

\* Weekday.__str__
Weekday_str(w) == Weekday_getWhen(w, 0, WEEKDAY_NAMES)

(***************************************************************************)
(* dateutil.rrule.rrule: the rule object a Recurrence wraps                *)
(***************************************************************************)
PairKey(p) == p[1] * 1000 + p[2]

\* tuple(sorted(S)) for a set of (weekday, n) pairs
RECURSIVE SortedPairs(_)
SortedPairs(S) ==
    IF S = {} THEN <<>>
    ELSE LET x == CHOOSE e \in S : \A f \in S : PairKey(e) <= PairKey(f)
         IN <<x>> \o SortedPairs(S \ {x})

\* rrule(freq, dtstart, interval, wkst, count, until, bymonth, bymonthday,
\*       byyearday, byeaster, byweekno, byweekday, bysetpos).
\* a holds the keyword arguments; an optional one is None or Some(value),
\* a.firstweekday is calendar.firstweekday().  Selector attributes that
\* dateutil leaves None are held as the empty tuple: the code tests them by
\* truth only.  Datetimes are dates at midnight.
rrule(a) ==
    LET nodefault == /\ IsNone(a.byweekno) /\ IsNone(a.byyearday)
                     /\ IsNone(a.bymonthday) /\ IsNone(a.byweekday)
                     /\ IsNone(a.byeaster)
        bymonth ==
            IF nodefault /\ a.freq = YEARLY /\ IsNone(a.bymonth)
            THEN Some(<<a.dtstart.month>>) ELSE a.bymonth
        bymonthday ==
            IF nodefault /\ a.freq \in {YEARLY, MONTHLY}
            THEN Some(<<a.dtstart.day>>) ELSE a.bymonthday
        byweekday ==
            IF nodefault /\ a.freq = WEEKLY
            THEN Some(<<Weekday(DateWeekday(a.dtstart), 0)>>) ELSE a.byweekday
        mdays == IF IsNone(bymonthday) THEN {} ELSE Range(Val(bymonthday))
        wdays == IF IsNone(byweekday) THEN {} ELSE Range(Val(byweekday))
        plain == {w.weekday : w \in {x \in wdays : NoN(x) \/ a.freq > MONTHLY}}
        nth == {<<w.weekday, w.n>> :
                    w \in {x \in wdays : ~(NoN(x) \/ a.freq > MONTHLY)}}
        SortedOpt(o) == IF IsNone(o) THEN <<>> ELSE SortedSeq(Range(Val(o)))
    IN [ _freq       |-> a.freq,
         _interval   |-> a.interval,
         _count      |-> a.count,
         _dtstart    |-> a.dtstart,
         _until      |-> a.until,
         _wkst       |-> IF IsNone(a.wkst) THEN a.firstweekday ELSE Val(a.wkst),
         _bysetpos   |-> IF IsNone(a.bysetpos) THEN <<>> ELSE Val(a.bysetpos),
         _bymonth    |-> SortedOpt(bymonth),
         _byyearday  |-> SortedOpt(a.byyearday),
         _byeaster   |-> SortedOpt(a.byeaster),
         _bymonthday |-> SortedSeq({x \in mdays : x > 0}),
         _bynmonthday |-> SortedSeq({x \in mdays : x < 0}),
         _byweekno   |-> SortedOpt(a.byweekno),
         _byweekday  |-> SortedSeq(plain),
         _bynweekday |-> SortedPairs(nth),
         _len        |-> None ]

(***************************************************************************)
(* class Recurrence(rrulebase): accessors                                  *)
(***************************************************************************)
Recurrence_freq(r) == r._freq
Recurrence_interval(r) == r._interval
Recurrence_count(r) == r._count
Recurrence_byweekno(r) == r._byweekno
Recurrence_byyearday(r) == r._byyearday
Recurrence_byeaster(r) == r._byeaster
Recurrence_bysetpos(r) == r._bysetpos

\* self.rule._dtstart.date()
Recurrence_dtstart(r) == r._dtstart

FREQ_OPTIONS == <<"YEARLY", "MONTHLY", "WEEKLY", "DAILY">>

Recurrence_frequency(r) ==
    IF r._freq < Len(FREQ_OPTIONS) THEN FREQ_OPTIONS[r._freq + 1]
    ELSE "unsupported_frequency_" \o ToString(r._freq)

\* None, or self.rule._until.date()
Recurrence_until(r) == r._until

Recurrence_wkst(r) == Weekday(r._wkst, 0)

Recurrence_byweekday(r) ==
    [i \in 1..Len(r._byweekday) |-> Weekday(r._byweekday[i], 0)]
    \o [i \in 1..Len(r._bynweekday) |->
            Weekday(r._bynweekday[i][1], r._bynweekday[i][2])]

Recurrence_bymonthday(r) == r._bymonthday \o r._bynmonthday

Recurrence_bymonth(r) == r._bymonth

\* Every value a Recurrence exposes through an accessor.
Accessors(r) ==
    [ freq |-> Recurrence_freq(r), frequency |-> Recurrence_frequency(r),
      interval |-> Recurrence_interval(r), count |-> Recurrence_count(r),
      dtstart |-> Recurrence_dtstart(r), until |-> Recurrence_until(r),
      wkst |-> Recurrence_wkst(r), byweekday |-> Recurrence_byweekday(r),
      bymonthday |-> Recurrence_bymonthday(r),
      bymonth |-> Recurrence_bymonth(r), bysetpos |-> Recurrence_bysetpos(r),
      byyearday |-> Recurrence_byyearday(r),
      byweekno |-> Recurrence_byweekno(r),
      byeaster |-> Recurrence_byeaster(r) ]

(***************************************************************************)
(* Serialization: Recurrence.__repr__ and Recurrence._getRrule             *)
(*                                                                         *)
(* A text is the sequence of its lines; a line is [name, value].  The      *)
(* value of an RRULE line is the sequence of its NAME=value parts; a       *)
(* number is held as the number its digits read, a date as the number its  *)
(* eight digits YYYYMMDD read, a weekday as the tokens of Weekday_repr.    *)
(***************************************************************************)
\* "{:%Y%m%d}".format(date)
FormatYmd(dt) == dt.year * 10000 + dt.month * 100 + dt.day

Part(k, v) == [key |-> k, val |-> v]

\* repr(v) for each v of a selector value
ReprInts(vs) == vs
ReprWeekdays(ws) == [i \in 1..Len(ws) |-> Weekday_repr(ws[i])]

\* `if self.count:`
CountIsTrue(r) == ~IsNone(Recurrence_count(r)) /\ Val(Recurrence_count(r)) # 0

Recurrence_getRrule(r) ==
    LET opt(cond, part) == IF cond THEN <<part>> ELSE <<>>
        sel(name, value) == IF value # <<>> THEN <<Part(name, value)>> ELSE <<>>
    IN <<Part("FREQ", Recurrence_frequency(r))>>
       \o opt(Recurrence_interval(r) # 0 /\ Recurrence_interval(r) # 1,
              Part("INTERVAL", Recurrence_interval(r)))
       \o <<Part("WKST", Weekday_repr(Recurrence_wkst(r)))>>
       \o opt(CountIsTrue(r), Part("COUNT", Val(Recurrence_count(r))))
       \o opt(~IsNone(Recurrence_until(r)),
              Part("UNTIL", FormatYmd(Val(Recurrence_until(r)))))
       \o sel("BYSETPOS", ReprInts(Recurrence_bysetpos(r)))
       \o sel("BYDAY", ReprWeekdays(Recurrence_byweekday(r)))
       \o sel("BYMONTH", ReprInts(Recurrence_bymonth(r)))
       \o sel("BYMONTHDAY", ReprInts(Recurrence_bymonthday(r)))
       \o sel("BYYEARDAY", ReprInts(Recurrence_byyearday(r)))
       \o sel("BYWEEKNO", ReprInts(Recurrence_byweekno(r)))

Line(n, v) == [name |-> n, value |-> v]

\* A date is always true, so the DTSTART line is always written.
Recurrence_repr(r) ==
    <<Line("DTSTART", FormatYmd(Recurrence_dtstart(r))),
      Line("RRULE", Recurrence_getRrule(r))>>

(***************************************************************************)
(* Parsing: dateutil.rrule.rrulestr                                        *)
(***************************************************************************)
\* parser.parse of eight digits YYYYMMDD
ParseYmd(v) == Date(v \div 10000, (v \div 100) % 100, v % 100)

SignDigits == {"+", "-", "0", "1", "2", "3", "4", "5", "6", "7", "8", "9"}

DigitValue(c) == CHOOSE d \in 0..9 : ToString(d) = c

\* int() of a sequence of sign and digit characters
ParseInt(cs) ==
    LET neg == cs[1] = "-"
        ds == IF cs[1] \in {"+", "-"} THEN Tail(cs) ELSE cs
        F[i \in 0..Len(ds)] ==
            IF i = 0 THEN 0 ELSE F[i-1] * 10 + DigitValue(ds[i])
    IN IF neg THEN -F[Len(ds)] ELSE F[Len(ds)]

\* One entry of BYDAY: the leading sign and digits are n, the rest is the
\* code looked up in _weekday_map.  The result is [ok, w].
ParseWeekday(tok) ==
    LET i == CHOOSE k \in 0..Len(tok) :
                /\ \A j \in 1..k : tok[j] \in SignDigits
                /\ (k < Len(tok) => tok[k+1] \notin SignDigits)
        n == SubSeq(tok, 1, i)
        w == SubSeq(tok, i + 1, Len(tok))
        known == Len(w) = 1 /\ \E c \in 1..7 : WEEKDAY_CODES[c] = w[1]
    IN IF ~known THEN [ok |-> FALSE, w |-> Weekday(0, 0)]
       ELSE [ok |-> TRUE,
             w |-> Weekday((CHOOSE c \in 1..7 : WEEKDAY_CODES[c] = w[1]) - 1,
                           IF n = <<>> THEN 0 ELSE ParseInt(n))]

\* The keyword arguments of rrule() that a text does not set.
DefaultArgs(dtstart, fwd) ==
    [ freq |-> None, dtstart |-> dtstart, interval |-> 1, wkst |-> None,
      count |-> None, until |-> None, bymonth |-> None, bymonthday |-> None,
      byyearday |-> None, byeaster |-> None, byweekno |-> None,
      byweekday |-> None, bysetpos |-> None, firstweekday |-> fwd ]

\* _handle_<NAME>(rrkwargs, name, value): [ok, args]
HandlePart(args, p) ==
    LET good(a) == [ok |-> TRUE, args |-> a]
        bad == [ok |-> FALSE, args |-> args]
    IN CASE p.key = "FREQ" ->
              IF \E f \in 1..4 : FREQ_OPTIONS[f] = p.val
              THEN good([args EXCEPT !.freq =
                      Some((CHOOSE f \in 1..4 : FREQ_OPTIONS[f] = p.val) - 1)])
              ELSE bad
         [] p.key = "INTERVAL" -> good([args EXCEPT !.interval = p.val])
         [] p.key = "COUNT" -> good([args EXCEPT !.count = Some(p.val)])
         [] p.key = "UNTIL" -> good([args EXCEPT !.until = Some(ParseYmd(p.val))])
         [] p.key = "WKST" ->
              IF Len(p.val) = 1 /\ ParseWeekday(p.val).ok
              THEN good([args EXCEPT !.wkst = Some(ParseWeekday(p.val).w.weekday)])
              ELSE bad
         [] p.key = "BYSETPOS" -> good([args EXCEPT !.bysetpos = Some(p.val)])
         [] p.key = "BYMONTH" -> good([args EXCEPT !.bymonth = Some(p.val)])
         [] p.key = "BYMONTHDAY" -> good([args EXCEPT !.bymonthday = Some(p.val)])
         [] p.key = "BYYEARDAY" -> good([args EXCEPT !.byyearday = Some(p.val)])
         [] p.key = "BYEASTER" -> good([args EXCEPT !.byeaster = Some(p.val)])
         [] p.key = "BYWEEKNO" -> good([args EXCEPT !.byweekno = Some(p.val)])
         [] p.key \in {"BYDAY", "BYWEEKDAY"} ->
              IF \A i \in 1..Len(p.val) : ParseWeekday(p.val[i]).ok
              THEN good([args EXCEPT !.byweekday =
                      Some([i \in 1..Len(p.val) |-> ParseWeekday(p.val[i]).w])])
              ELSE bad
         [] OTHER -> bad

NoRule == [none |-> TRUE]

\* rrulestr._parse_rfc_rrule(line, dtstart): [err, rule].  An unknown or
\* invalid part is a ValueError; a text without FREQ leaves rrule() without
\* its required argument, a TypeError.
parse_rfc_rrule(parts, dtstart, fwd) ==
    LET F[i \in 0..Len(parts)] ==
            IF i = 0 THEN [ok |-> TRUE, args |-> DefaultArgs(dtstart, fwd)]
            ELSE IF ~F[i-1].ok THEN F[i-1]
            ELSE HandlePart(F[i-1].args, parts[i])
        res == F[Len(parts)]
    IN IF ~res.ok THEN [err |-> "ValueError", rule |-> NoRule]
       ELSE IF IsNone(res.args.freq) THEN [err |-> "TypeError", rule |-> NoRule]
       ELSE [err |-> "", rule |-> rrule([res.args EXCEPT !.freq = Val(@)])]

PROPERTY_NAMES == {"RRULE", "RDATE", "EXRULE", "EXDATE", "DTSTART"}

\* rrulestr(s, forceset=...): [err, kind, rule] with kind "rrule" or
\* "rruleset".  now is datetime.now(), the start of a rule whose text has
\* no DTSTART line.
rrulestr(s, fset, now, fwd) ==
    LET named(n) == {i \in 1..Len(s) : s[i].name = n}
        fail(e) == [err |-> e, kind |-> "", rule |-> NoRule]
    IN IF s = <<>> THEN fail("ValueError")
       ELSE IF ~fset /\ Len(s) = 1 /\ s[1].name = "RRULE"
       THEN LET one == parse_rfc_rrule(s[1].value, now, fwd)
            IN [err |-> one.err, kind |-> "rrule", rule |-> one.rule]
       ELSE IF \E i \in 1..Len(s) : s[i].name \notin PROPERTY_NAMES
       THEN fail("ValueError")
       ELSE LET starts == named("DTSTART")
                dtstart == IF starts = {} THEN now
                           ELSE ParseYmd(s[CHOOSE i \in starts :
                                             \A j \in starts : j <= i].value)
                first == CHOOSE i \in named("RRULE") :
                             \A j \in named("RRULE") : i <= j
            IN IF fset \/ Cardinality(named("RRULE")) > 1
                  \/ named("RDATE") # {} \/ named("EXRULE") # {}
                  \/ named("EXDATE") # {}
               THEN LET errOf(i) == parse_rfc_rrule(s[i].value, dtstart, fwd).err
                        badIn(S) == {i \in S : errOf(i) # ""}
                        firstBad(S) == CHOOSE i \in badIn(S) :
                                           \A j \in badIn(S) : i <= j
                    IN IF badIn(named("RRULE")) # {}
                       THEN fail(errOf(firstBad(named("RRULE"))))
                       ELSE IF badIn(named("EXRULE")) # {}
                       THEN fail(errOf(firstBad(named("EXRULE"))))
                       ELSE [err |-> "", kind |-> "rruleset", rule |-> NoRule]
               ELSE IF named("RRULE") = {} THEN fail("IndexError")
               ELSE LET one == parse_rfc_rrule(s[first].value, dtstart, fwd)
                    IN [err |-> one.err, kind |-> "rrule", rule |-> one.rule]

\* Recurrence.__init__(arg0: str) without the isinstance test on what
\* rrulestr returned.
Recurrence_init_str_Unchecked(arg0, fset, now, fwd) ==
    LET got == rrulestr(arg0, fset, now, fwd) IN
    IF got.err # "" THEN [err |-> got.err, rule |-> NoRule]
    ELSE [err |-> "", rule |-> got.rule]

\* Recurrence.__init__(arg0: str, **kwargs): [err, rule].  err is ""
\* when a Recurrence is made, "NotSupported" for the ValueError the
\* constructor itself raises, else the error rrulestr raised.
Recurrence_init_str(arg0, fset, now, fwd) ==
    LET got == rrulestr(arg0, fset, now, fwd) IN
    IF got.err # "" THEN [err |-> got.err, rule |-> NoRule]
    ELSE IF got.kind # "rrule" THEN [err |-> "NotSupported", rule |-> NoRule]
    ELSE [err |-> "", rule |-> got.rule]

\* Recurrence.__init__(arg0: Recurrence) and (arg0: rrule): the new object
\* holds the very rule object it was given.
Recurrence_init_copy(r) == r

\* Recurrence.__init__(**kwargs)
Recurrence_init_args(a) == rrule(a)

(***************************************************************************)
(* Iteration: Recurrence._iter over dateutil's rrule._iter                 *)
(***************************************************************************)
MonthDates(y, m) == [d \in 1..DaysInMonth(y, m) |-> Date(y, m, d)]

\* _iterinfo.ydayset / mdayset / wdayset / ddayset: the days of the period
\* that holds (year, month, day), in order.
ydayset(y) ==
    LET F[m \in 0..12] == IF m = 0 THEN <<>> ELSE F[m-1] \o MonthDates(y, m)
    IN F[12]

mdayset(y, m) == MonthDates(y, m)

\* From the day up to, not including, the next week start; it may run
\* over the end of the year.
wdayset(y, m, d, wkst) ==
    LET start == Date(y, m, d)
        n == CHOOSE k \in 1..7 :
                /\ \A j \in 1..(k-1) : DateWeekday(AddDays(start, j)) # wkst
                /\ (k = 7 \/ DateWeekday(AddDays(start, k)) = wkst)
    IN [j \in 1..n |-> AddDays(start, j - 1)]

ddayset(y, m, d) == <<Date(y, m, d)>>

getdayset(r, y, m, d) ==
    CASE r._freq = YEARLY -> ydayset(y)
      [] r._freq = MONTHLY -> mdayset(y, m)
      [] r._freq = WEEKLY -> wdayset(y, m, d, r._wkst)
      [] OTHER -> ddayset(y, m, d)

\* _iterinfo.rebuild, the part that builds nwdaymask: the day-of-year
\* indices of the n-th weekdays, counted within the year, within each month
\* of bymonth, or within the current month.
nwdaymask(r, y, m) ==
    LET wd0 == DateWeekday(Date(y, 1, 1))
        wdaymask(i) == (wd0 + i) % 7
        mrange(k) == <<DaysBeforeMonth(y, k),
                       DaysBeforeMonth(y, k) + DaysInMonth(y, k)>>
        ranges == IF r._freq = YEARLY
                  THEN IF r._bymonth # <<>>
                       THEN {mrange(k) : k \in Range(r._bymonth)}
                       ELSE {<<0, YearLen(y)>>}
                  ELSE {mrange(m)}
        mark(rg, p) ==
            LET first == rg[1]
                last == rg[2] - 1
                wday == p[1]
                n == p[2]
                i == IF n < 0
                     THEN LET j == last + (n + 1) * 7
                          IN j - ((wdaymask(j) - wday) % 7)
                     ELSE LET j == first + (n - 1) * 7
                          IN j + ((7 - wdaymask(j) + wday) % 7)
            IN IF first <= i /\ i <= last THEN {i} ELSE {}
    IN UNION {mark(rg, p) : rg \in ranges, p \in Range(r._bynweekday)}

\* nwdaymask is built, and then tested, only when the rule has n-th
\* weekdays and is YEARLY or MONTHLY.
HasNwdaymask(r) == r._bynweekday # <<>> /\ r._freq \in {YEARLY, MONTHLY}

\* The test of the "hard work" loop of rrule._iter: TRUE when day dt stays
\* in the dayset.  byweekno and byeaster are not modelled; rules that are
\* iterated leave them unset.
KeepDay(r, mask, dt) ==
    /\ (r._bymonth # <<>> => dt.month \in Range(r._bymonth))
    /\ (r._byweekday # <<>> => DateWeekday(dt) \in Range(r._byweekday))
    /\ (HasNwdaymask(r) => YearDay(dt) \in mask)
    /\ ((r._bymonthday # <<>> \/ r._bynmonthday # <<>>) =>
            \/ dt.day \in Range(r._bymonthday)
            \/ (dt.day - DaysInMonth(dt.year, dt.month) - 1)
                   \in Range(r._bynmonthday))
    /\ (r._byyearday # <<>> =>
            \/ (YearDay(dt) + 1) \in Range(r._byyearday)
            \/ (YearDay(dt) - YearLen(dt.year)) \in Range(r._byyearday))

\* The bysetpos selection without `poslist.sort()`: the entries in the
\* order bysetpos names them.
SetPosList_Unsorted(r, days) ==
    LET n == Len(days)
        idx(pos) == IF pos < 0 THEN n + pos + 1 ELSE pos
        InRange(q) == 1 <= idx(q) /\ idx(q) <= n
        valid == SelectSeq(r._bysetpos, InRange)
    IN [k \in 1..Len(valid) |-> days[idx(valid[k])]]

\* The bysetpos selection: the entries of the filtered dayset at the given
\* positions (1-based from the front, negative from the back), without
\* repeats, sorted.
SetPosList(r, days) ==
    LET n == Len(days)
        idx(pos) == IF pos < 0 THEN n + pos + 1 ELSE pos
        picked == {idx(pos) : pos \in {q \in Range(r._bysetpos) :
                                          1 <= idx(q) /\ idx(q) <= n}}
        order == SortedSeq(picked)
    IN [k \in 1..Len(order) |-> days[order[k]]]

\* The results of one pass of the `while True` loop, before the until,
\* dtstart and count tests: the dates of the period that pass the filter.
PeriodDates(r, y, m, d) ==
    LET mask == IF HasNwdaymask(r) THEN nwdaymask(r, y, m) ELSE {}
        Keep(dt) == KeepDay(r, mask, dt)
        days == SelectSeq(getdayset(r, y, m, d), Keep)
    IN IF r._bysetpos # <<>> THEN SetPosList(r, days) ELSE days

\* The `fixday` loop: carry a day past the end of its month forward.
\* The result is [year, month, day]; year may pass MAXYEAR.
RECURSIVE FixDay(_, _, _)
FixDay(y, m, d) ==
    IF d <= DaysInMonth(y, m) \/ y > MAXYEAR THEN Date(y, m, d)
    ELSE IF m = 12 THEN FixDay(y + 1, 1, d - DaysInMonth(y, m))
    ELSE FixDay(y, m + 1, d - DaysInMonth(y, m))

\* "Handle frequency and interval": the start of the next period, as
\* [year, month, day, weekday].
NextPeriod(r, g) ==
    CASE r._freq = YEARLY ->
            [year |-> g.year + r._interval, month |-> g.month, day |-> g.day,
             weekday |-> g.weekday]
      [] r._freq = MONTHLY ->
            LET mm == g.month + r._interval
                div == mm \div 12
                mod == mm % 12
            IN IF mm <= 12
               THEN [year |-> g.year, month |-> mm, day |-> g.day,
                     weekday |-> g.weekday]
               ELSE IF mod = 0
               THEN [year |-> g.year + div - 1, month |-> 12, day |-> g.day,
                     weekday |-> g.weekday]
               ELSE [year |-> g.year + div, month |-> mod, day |-> g.day,
                     weekday |-> g.weekday]
      [] r._freq = WEEKLY ->
            LET day == IF r._wkst > g.weekday
                       THEN g.day - (g.weekday + 1 + (6 - r._wkst))
                                + r._interval * 7
                       ELSE g.day - (g.weekday - r._wkst) + r._interval * 7
                f == FixDay(g.year, g.month, day)
            IN [year |-> f.year, month |-> f.month, day |-> f.day,
                weekday |-> r._wkst]
      [] OTHER ->
            LET f == FixDay(g.year, g.month, g.day + r._interval)
            IN [year |-> f.year, month |-> f.month, day |-> f.day,
                weekday |-> g.weekday]

\* A generator frame.  st is "none" (no generator), "run" or "done"; why
\* names the return statement that ended it ("until", "count" or
\* "maxyear"); obj is the Recurrence object it iterates (0 the first, k
\* its k-th copy).
NoGen ==
    [st |-> "none", why |-> "", obj |-> 0, year |-> 0, month |-> 0,
     day |-> 0, weekday |-> 0, count |-> None, total |-> 0, pending |-> <<>>]

\* A generator whose count allows one date more than the rule's.
GenStart_OffByOne(r) ==
    [st |-> "run", why |-> "", obj |-> 0, year |-> r._dtstart.year,
     month |-> r._dtstart.month,
     day |-> r._dtstart.day, weekday |-> DateWeekday(r._dtstart),
     count |-> IF IsNone(r._count) THEN None ELSE Some(Val(r._count) + 1),
     total |-> 0,
     pending |-> PeriodDates(r, r._dtstart.year, r._dtstart.month,
                             r._dtstart.day)]

\* The generator up to its first pass of the loop: the locals are read from
\* the rule and the first period's dates are worked out.
GenStart(r) ==
    [st |-> "run", why |-> "", obj |-> 0, year |-> r._dtstart.year,
     month |-> r._dtstart.month,
     day |-> r._dtstart.day, weekday |-> DateWeekday(r._dtstart),
     count |-> r._count, total |-> 0,
     pending |-> PeriodDates(r, r._dtstart.year, r._dtstart.month,
                             r._dtstart.day)]

\* `self._len = total; return`
Stopped(r, g, why) ==
    [rule |-> [r EXCEPT !._len = Some(g.total)],
     gen |-> [g EXCEPT !.st = "done", !.why = why, !.pending = <<>>],
     res |-> None]

\* One step of a running generator g over rule r: the next date of the
\* period is tested and yielded, skipped, or ends the generator; when the
\* period has no dates left the generator moves to the next period.  The
\* result is [rule, gen, res]: the rule (its _len is set when the generator
\* ends), the frame, and the date yielded, if any.
GenStep(r, g) ==
    IF g.pending # <<>>
    THEN LET res == Head(g.pending)
             rest == [g EXCEPT !.pending = Tail(g.pending)]
         IN IF ~IsNone(r._until) /\ DateLT(Val(r._until), res)
            THEN Stopped(r, g, "until")
            ELSE IF DateLE(r._dtstart, res)
            THEN IF ~IsNone(g.count) /\ Val(g.count) - 1 < 0
                 THEN Stopped(r, g, "count")
                 ELSE [rule |-> r,
                       gen |-> [rest EXCEPT
                                  !.count = IF IsNone(g.count) THEN None
                                            ELSE Some(Val(g.count) - 1),
                                  !.total = g.total + 1],
                       res |-> Some(res)]
            ELSE [rule |-> r, gen |-> rest, res |-> None]
    ELSE LET n == NextPeriod(r, g)
         IN IF n.year > MAXYEAR THEN Stopped(r, g, "maxyear")
            ELSE [rule |-> r,
                  gen |-> [g EXCEPT !.year = n.year, !.month = n.month,
                                    !.day = n.day, !.weekday = n.weekday,
                                    !.pending = PeriodDates(r, n.year, n.month,
                                                            n.day)],
                  res |-> None]

(***************************************************************************)
(* Description: Recurrence._getWhen                                        *)
(***************************************************************************)
SignedStr(n) == IF n < 0 THEN ToString(n) ELSE "+" \o ToString(n)

MonthNames(ms) == [i \in 1..Len(ms) |-> MONTH_NAMES[ms[i]]]

WrappedMonthNames(ms, step) ==
    [i \in 1..Len(ms) |-> WRAPPED_MONTH_NAMES[ms[i] + step]]

\* The effective day without the wraparound at either end of the month.
EffectiveDay_NoWrap(d, offset) == d + offset

\* The day number handed to toOrdinal in the branch for exactly one
\* bymonthday entry d.
EffectiveDay(d, offset) ==
    IF d = 1 /\ offset < 0 THEN offset
    ELSE IF d = -1 /\ offset > 0 THEN offset
    ELSE d + offset

\* The phrase of the branch for two or more bymonthday entries; with
\* offset 0 no branch of the if/elif chain is taken and retval stays "".
SeveralDaysPhrase(mds, offset) ==
    LET days == [i \in 1..Len(mds) |-> toTheOrdinal(mds[i])]
    IN CASE offset = -2 -> "Two days before " \o hrJoin(days) \o " day"
         [] offset = -1 -> "The day before " \o hrJoin(days) \o " day"
         [] offset = 1 -> "The day after " \o hrJoin(days) \o " day"
         [] offset = 2 -> "Two days after " \o hrJoin(days) \o " day"
         [] offset # 0 /\ offset \notin {-2, -1, 1, 2} ->
                hrJoin([i \in 1..Len(days) |-> days[i] \o SignedStr(offset)])
         [] OTHER -> ""

\* The MONTHLY / YEARLY branch up to `retval += of`:
\* [days, of, ord], ord the argument of toOrdinal in the one-day branch.
MonthlyPhrase(r, offset) ==
    LET of0 == IF r._freq = MONTHLY THEN " of the month"
               ELSE " of " \o hrJoin(MonthNames(Recurrence_bymonth(r)))
        wds == Recurrence_byweekday(r)
        mds == Recurrence_bymonthday(r)
        whens == [i \in 1..Len(wds) |->
                     Weekday_getWhen(wds[i], offset, WEEKDAY_NAMES)]
        phrase(d, o) == [days |-> d, of |-> o, ord |-> None]
    IN IF wds # <<>>
       THEN IF Len(wds) = 7 /\ \A i \in 1..7 : NoN(wds[i])
            THEN phrase("Everyday", "")
            ELSE IF NoN(wds[1])
            THEN phrase("Every " \o hrJoin(whens), "")
            ELSE phrase("The " \o hrJoin(whens), of0)
       ELSE IF Len(mds) > 1
       THEN phrase(SeveralDaysPhrase(mds, offset), of0)
       ELSE IF Len(mds) = 1
       THEN LET d == EffectiveDay(mds[1], offset)
                step == IF mds[1] = 1 /\ offset < 0 THEN -1
                        ELSE IF mds[1] = -1 /\ offset > 0 THEN 1 ELSE 0
                of1 == IF step # 0 /\ r._freq # MONTHLY
                       THEN " of " \o hrJoin(WrappedMonthNames(
                                          Recurrence_bymonth(r), step))
                       ELSE of0
            IN [days |-> "The " \o toOrdinal(d) \o " day", of |-> of1,
                ord |-> Some(d)]
       ELSE phrase("", of0)

\* The WEEKLY branch: the plural names, joined and wrapped by the interval.
WeeklyPhrase(r, offset) ==
    LET wds == Recurrence_byweekday(r)
        days == hrJoin([i \in 1..Len(wds) |->
                           Weekday_getPluralWhen(wds[i], offset)])
    IN IF r._interval = 2 THEN "Fortnightly on " \o days
       ELSE IF r._interval > 2
       THEN "Every " \o ToString(r._interval) \o " weeks on " \o days
       ELSE days

\* numDays and until, appended whatever the frequency.
WhenTail(r, offset, numDays) ==
    (IF numDays >= 2 THEN " for " \o ToString(numDays) \o " days" ELSE "")
    \o (IF ~IsNone(Recurrence_until(r))
        THEN " (until "
                 \o dateFormatDMY(AddDays(Val(Recurrence_until(r)), offset))
                 \o ")"
        ELSE "")

\* Recurrence._getWhen(offset, numDays): [days, of, ord, text]; text is the
\* value returned, the rest are the values of the locals it was made from.
Recurrence_getWhen(r, offset, numDays) ==
    IF r._freq = DAILY
    THEN [days |-> "", of |-> "", ord |-> None,
          text |-> (IF r._interval > 1
                    THEN "Every " \o ToString(r._interval) \o " days"
                    ELSE "Daily") \o WhenTail(r, offset, numDays)]
    ELSE IF r._freq = WEEKLY
    THEN [days |-> "", of |-> "", ord |-> None,
          text |-> WeeklyPhrase(r, offset) \o WhenTail(r, offset, numDays)]
    ELSE LET p == MonthlyPhrase(r, offset)
             whole == p.days \o p.of
             every == IF r._interval >= 2
                      THEN whole \o ", every " \o ToString(r._interval)
                               \o (IF r._freq = MONTHLY THEN " months"
                                   ELSE " years")
                      ELSE whole
         IN [days |-> p.days, of |-> p.of, ord |-> p.ord,
             text |-> every \o WhenTail(r, offset, numDays)]

\* Recurrence.__str__
Recurrence_str(r) == Recurrence_getWhen(r, 0, 1).text

(***************************************************************************)
(* State machine                                                           *)
(***************************************************************************)
\* Reader 0 is the loop inside getCount(); readers 1.. are callers that
\* iterate the Recurrence or a copy of it.
Readers == 0..2

NoMade == [err |-> "unset", rule |-> NoRule]

NoWhen ==
    [called |-> FALSE, offset |-> 0, numDays |-> 1, days |-> "", of |-> "",
     ord |-> None, text |-> ""]

NoWdWhen == [called |-> FALSE, offset |-> 0, text |-> ""]

\* datetime.now() and calendar.firstweekday() when a rule is built
Today == Date(1990, 1, 1)
FirstWeekdays == {0, 6}

\* The keyword arguments of a Recurrence built from explicit field values.
Args(freq, dtstart, interval, count, until, byweekday, bymonthday, bymonth) ==
    [DefaultArgs(dtstart, 0) EXCEPT
        !.freq = freq, !.interval = interval, !.count = count,
        !.until = until, !.byweekday = byweekday, !.bymonthday = bymonthday,
        !.bymonth = bymonth]

MO == Weekday(0, 0)
TU == Weekday(1, 0)
WE == Weekday(2, 0)
TH == Weekday(3, 0)
FR == Weekday(4, 0)
SA == Weekday(5, 0)
SU == Weekday(6, 0)
EVERYWEEKDAY == <<MO, TU, WE, TH, FR, SA, SU>>

\* Nothing parsed, iterated or described yet.
NoneMade == made = NoMade

NoneIterated ==
    /\ gens = [rd \in Readers |-> NoGen]
    /\ out = [rd \in Readers |-> <<>>]
    /\ counted = None
    /\ copies = 0

NoneDescribed == when = NoWhen /\ wdWhen = NoWdWhen

(***************************************************************************)
(* Weekday description                                                     *)
(***************************************************************************)
WeekdayNs == (-MaxOffset)..MaxOffset

WeekdayOffsets == (-(7 + MaxOffset))..(7 + MaxOffset)

InitWeekday ==
    /\ NoneMade /\ NoneIterated /\ NoneDescribed
    /\ rule = NoRule
    /\ text = <<>>
    /\ forceset = FALSE
    /\ wd \in {Weekday(w, n) : w \in 0..6, n \in WeekdayNs}

\* wd._getWhen(offset)
DescribeWeekday ==
    /\ \E offset \in WeekdayOffsets :
          wdWhen' = [called |-> TRUE, offset |-> offset,
                     text |-> Weekday_getWhen(wd, offset, WEEKDAY_NAMES)]
    /\ UNCHANGED <<rule, text, forceset, made, gens, out, counted, copies,
                   when, wd>>

NextWeekday == DescribeWeekday

SpecWeekday == InitWeekday /\ [][NextWeekday]_vars

\* C7: Weekday describe.  With offset 0 the result is the plain name of the
\* weekday when n is unset and "{ordinal of n} {name}" when n is set; with
\* another offset and n unset it is the name of weekday (w + offset) mod 7;
\* with another offset and n set it is "{that name} before the {ordinal}
\* {name}" for a negative offset and "... after the ..." for a positive one;
\* describe(-1) on the 2nd Tuesday is "Monday before the 2nd Tuesday".
C7_WeekdayDescribe ==
    wdWhen.called =>
        LET name == WEEKDAY_NAMES[wd.weekday + 1]
            moved == WEEKDAY_NAMES[((wd.weekday + wdWhen.offset) % 7) + 1]
            nth == toOrdinal(wd.n) \o " " \o name
        IN /\ (wdWhen.offset = 0 /\ wd.n = 0) => wdWhen.text = name
           /\ (wdWhen.offset = 0 /\ wd.n # 0) => wdWhen.text = nth
           /\ (wdWhen.offset # 0 /\ wd.n = 0) => wdWhen.text = moved
           /\ (wdWhen.offset < 0 /\ wd.n # 0) =>
                  wdWhen.text = moved \o " before the " \o nth
           /\ (wdWhen.offset > 0 /\ wd.n # 0) =>
                  wdWhen.text = moved \o " after the " \o nth
           /\ (wd = Weekday(1, 2) /\ wdWhen.offset = -1) =>
                  wdWhen.text = "Monday before the 2nd Tuesday"
           /\ (wd = Weekday(1, 2) /\ wdWhen.offset = 0) =>
                  wdWhen.text = "2nd Tuesday"

\* The 2nd Tuesday has been described a day early, across the week's start.
C7_Witness ==
    /\ wdWhen.called
    /\ wd = Weekday(0, 2)
    /\ wdWhen.offset = -1
    /\ wdWhen.text = "Sunday before the 2nd Monday"

(***************************************************************************)
(* Rule description                                                        *)
(***************************************************************************)
StartDate == Date(1990, 1, 2)
UntilDate == Date(1990, 3, 29)

Intervals == 1..MaxInterval
Offsets == (-MaxOffset)..MaxOffset
NumDays == {1, 2, 3}
Untils == {None, Some(UntilDate)}

\* Every day of the month a rule may name, counted from either end.
MonthDays == ((-31)..31) \ {0}

WhenArgs ==
    {Args(DAILY, StartDate, i, None, u, None, None, None) :
        i \in Intervals, u \in Untils}
    \cup
    {Args(WEEKLY, StartDate, i, None, u, wds, None, None) :
        i \in Intervals, u \in Untils,
        wds \in {None, Some(<<TU>>), Some(<<MO, WE, FR>>)}}
    \cup
    {Args(f, StartDate, i, None, u, wds, None, ms) :
        f \in {MONTHLY, YEARLY}, i \in Intervals, u \in Untils,
        wds \in {Some(<<TU>>), Some(EVERYWEEKDAY), Some(<<Weekday(1, 2)>>),
                 Some(<<Weekday(4, -1), MO>>)},
        ms \in {None, Some(<<3>>)}}
    \cup
    {Args(f, StartDate, i, None, u, None, mds, ms) :
        f \in {MONTHLY, YEARLY}, i \in Intervals, u \in Untils,
        mds \in {None, Some(<<1, 15>>), Some(<<10, 20, -1>>)}
                  \cup {Some(<<d>>) : d \in MonthDays},
        ms \in {None, Some(<<1>>), Some(<<3, 12>>)}}

InitWhen ==
    /\ NoneMade /\ NoneIterated /\ NoneDescribed
    /\ rule \in {Recurrence_init_args(a) : a \in WhenArgs}
    /\ text = <<>>
    /\ forceset = FALSE
    /\ wd = MO

\* rule._getWhen(offset, numDays)
GetWhen ==
    /\ \E offset \in Offsets, numDays \in NumDays :
          LET w == Recurrence_getWhen(rule, offset, numDays)
          IN when' = [called |-> TRUE, offset |-> offset,
                      numDays |-> numDays, days |-> w.days, of |-> w.of,
                      ord |-> w.ord, text |-> w.text]
    /\ UNCHANGED <<rule, text, forceset, made, gens, out, counted, copies, wd,
                   wdWhen>>

NextWhen == GetWhen

SpecWhen == InitWhen /\ [][NextWhen]_vars

\* The rule of the multiday-event test: weekly on Tuesday from 1990-01-02
\* until 1990-03-29.
TestRule ==
    rrule(Args(WEEKLY, StartDate, 1, None, Some(UntilDate), Some(<<TU>>),
               None, None))

\* C6 as stated: for that rule describe() with dayOffset 0 and numDays 1
\* is "Tuesday (until 29th of March 1990)".
C6_AsStated ==
    (rule = TestRule /\ when.called /\ when.offset = 0 /\ when.numDays = 1)
        => when.text = "Tuesday (until 29th of March 1990)"

\* C6 amended: the weekly branch joins the plural weekday names, so the
\* description is "Tuesdays (until 29th of March 1990)".
C6_PluralName ==
    (rule = TestRule /\ when.called /\ when.offset = 0 /\ when.numDays = 1)
        => when.text = "Tuesdays (until 29th of March 1990)"

C6_Witness ==
    /\ rule = TestRule
    /\ when.called /\ when.offset = 0 /\ when.numDays = 1
    /\ when.text = "Tuesdays (until 29th of March 1990)"

\* The rule is MONTHLY or YEARLY and names no weekday.
ByMonthDayOnly ==
    /\ rule._freq \in {MONTHLY, YEARLY}
    /\ Recurrence_byweekday(rule) = <<>>

\* C8: for a MONTHLY or YEARLY rule with no byWeekday and two or more
\* byMonthDay entries, describe(dayOffset=0) has as its days phrase the
\* joined list of the ordinal-day phrases of every entry, which is not
\* empty, followed by the "of ..." suffix.
C8_JoinedDayList ==
    (/\ ByMonthDayOnly
     /\ Len(Recurrence_bymonthday(rule)) >= 2
     /\ when.called /\ when.offset = 0)
        => LET mds == Recurrence_bymonthday(rule)
               days == hrJoin([i \in 1..Len(mds) |-> toTheOrdinal(mds[i])])
           IN /\ when.days = days
              /\ when.days # ""
              /\ when.text = days \o when.of
                     \o (IF rule._interval >= 2
                         THEN ", every " \o ToString(rule._interval)
                                  \o (IF rule._freq = MONTHLY THEN " months"
                                      ELSE " years")
                         ELSE "")
                     \o WhenTail(rule, 0, when.numDays)

\* C9: for a MONTHLY or YEARLY rule with no byWeekday and exactly one
\* byMonthDay entry d, describe(dayOffset=offset) renders "The {ordinal of
\* e} day", e = offset if (d = 1 and offset < 0) or (d = -1 and offset > 0)
\* and e = d + offset otherwise; MONTHLY byMonthDay=[-1] with dayOffset 1 is
\* "The 1st day of the month", and MONTHLY byMonthDay=[1] with dayOffset 0
\* and numDays 3 is "The 1st day of the month for 3 days".
C9_SingleMonthDay ==
    (/\ ByMonthDayOnly
     /\ Len(Recurrence_bymonthday(rule)) = 1
     /\ when.called)
        => LET d == Recurrence_bymonthday(rule)[1]
               offset == when.offset
               e == IF (d = 1 /\ offset < 0) \/ (d = -1 /\ offset > 0)
                    THEN offset ELSE d + offset
               plain(md) == rrule(Args(MONTHLY, StartDate, 1, None, None,
                                       None, Some(<<md>>), None))
           IN /\ when.days = "The " \o toOrdinal(e) \o " day"
              /\ (rule = plain(-1) /\ offset = 1 /\ when.numDays = 1)
                     => when.text = "The 1st day of the month"
              /\ (rule = plain(1) /\ offset = 0 /\ when.numDays = 3)
                     => when.text = "The 1st day of the month for 3 days"

\* The day after the last day of the month has been described.
C9_Witness ==
    /\ rule = rrule(Args(MONTHLY, StartDate, 1, None, None, None,
                         Some(<<-1>>), None))
    /\ when.called /\ when.offset = 1 /\ when.numDays = 1
    /\ when.text = "The 1st day of the month"

\* C10: in the branch for exactly one byMonthDay entry d, the day number
\* handed to the ordinal formatter is never 0 and, outside the d = 1 and
\* d = -1 wraparound cases, has the sign of d.
C10_EffectiveDayKeepsSign ==
    (/\ ByMonthDayOnly
     /\ Len(Recurrence_bymonthday(rule)) = 1
     /\ when.called)
        => LET d == Recurrence_bymonthday(rule)[1]
               e == Val(when.ord)
               wraps == (d = 1 /\ when.offset < 0) \/ (d = -1 /\ when.offset > 0)
           IN /\ e # 0
              /\ ~wraps => ((d > 0) <=> (e > 0))

(***************************************************************************)
(* Construction from a serialized string                                   *)
(***************************************************************************)
DailyLine == Line("RRULE", <<Part("FREQ", "DAILY")>>)
WeeklyLine ==
    Line("RRULE", <<Part("FREQ", "WEEKLY"), Part("INTERVAL", 2),
                    Part("BYDAY", <<Weekday_repr(TU), Weekday_repr(FR)>>)>>)

\* The lines a text handed to Recurrence(str) is made of: a start, plain
\* rules, the other clause types of a rule set, an RRULE with an unknown
\* part, an RRULE without FREQ, and a property rrulestr does not know.
LinePool ==
    { Line("DTSTART", 19900102), DailyLine, WeeklyLine,
      Line("RDATE", 19900105),
      Line("EXRULE", <<Part("FREQ", "MONTHLY"), Part("BYMONTHDAY", <<31>>)>>),
      Line("EXDATE", 19900109),
      Line("RRULE", <<Part("FREQ", "DAILY"), Part("BYFORTNIGHT", 1)>>),
      Line("RRULE", <<Part("INTERVAL", 2)>>),
      Line("X-WR-CALNAME", 0) }

MaxLines == 3

Texts == UNION {[1..n -> LinePool] : n \in 0..MaxLines}

InitParse ==
    /\ NoneMade /\ NoneIterated /\ NoneDescribed
    /\ rule = NoRule
    /\ text \in Texts
    /\ forceset \in BOOLEAN
    /\ wd = MO

\* Recurrence(text, forceset=forceset)
Construct ==
    /\ made = NoMade
    /\ \E fwd \in FirstWeekdays :
          made' = Recurrence_init_str(text, forceset, Today, fwd)
    /\ UNCHANGED <<rule, text, forceset, gens, out, counted, copies, when, wd,
                   wdWhen>>

NextParse == Construct

SpecParse == InitParse /\ [][NextParse]_vars

RULE_PARTS ==
    {"FREQ", "INTERVAL", "COUNT", "UNTIL", "WKST", "BYSETPOS", "BYMONTH",
     "BYMONTHDAY", "BYYEARDAY", "BYEASTER", "BYWEEKNO", "BYDAY", "BYWEEKDAY"}

\* The text is in the recurrence grammar: known properties, and in every
\* rule a FREQ and only known parts.
WellFormed(s) ==
    /\ s # <<>>
    /\ \A i \in 1..Len(s) :
          /\ s[i].name \in PROPERTY_NAMES
          /\ s[i].name \in {"RRULE", "EXRULE"} =>
                /\ \E k \in 1..Len(s[i].value) : s[i].value[k].key = "FREQ"
                /\ \A k \in 1..Len(s[i].value) :
                      s[i].value[k].key \in RULE_PARTS

CountOf(s, names) == Cardinality({i \in 1..Len(s) : s[i].name \in names})

\* More than one clause: several rules, or any date or exclusion clause.
MultiClause(s) ==
    /\ WellFormed(s)
    /\ \/ CountOf(s, {"RRULE"}) > 1
       \/ CountOf(s, {"RDATE", "EXRULE", "EXDATE"}) > 0

\* Exactly one plain rule, with or without a start.
OnePlainRule(s) ==
    /\ WellFormed(s)
    /\ CountOf(s, {"RRULE"}) = 1
    /\ CountOf(s, {"RDATE", "EXRULE", "EXDATE"}) = 0

Counts == {None} \cup {Some(c) : c \in 0..MaxCount}

\* Rules built from explicit field values: every frequency, every optional
\* bound, weekdays with and without ordinals, signed month days, and the
\* pass-through selectors.
ReprArgs ==
    {[Args(f, StartDate, i, c, u, wds, mds, ms) EXCEPT
          !.bysetpos = sp, !.byyearday = yd, !.byweekno = wn, !.wkst = ws] :
        f \in {YEARLY, MONTHLY, WEEKLY, DAILY}, i \in Intervals, c \in Counts,
        u \in Untils,
        wds \in {None, Some(<<TU>>), Some(<<Weekday(1, 2), FR>>),
                 Some(<<Weekday(4, -1)>>)},
        mds \in {None, Some(<<1>>), Some(<<-1, 15>>)},
        ms \in {None, Some(<<12, 3>>)},
        sp \in {None, Some(<<-1, 2>>)},
        yd \in {None, Some(<<100, -1>>)},
        wn \in {None, Some(<<20>>)},
        ws \in {None, Some(6)}}

InitRepr ==
    /\ NoneMade /\ NoneIterated /\ NoneDescribed
    /\ rule \in {Recurrence_init_args(a) : a \in ReprArgs}
    /\ text = <<>>
    /\ forceset = FALSE
    /\ wd = MO

\* text = repr(rule)
Repr ==
    /\ text = <<>>
    /\ text' = Recurrence_repr(rule)
    /\ UNCHANGED <<rule, forceset, made, gens, out, counted, copies, when, wd,
                   wdWhen>>

\* Recurrence(text) of a text repr() produced
FromRepr ==
    /\ text # <<>>
    /\ made = NoMade
    /\ \E fwd \in FirstWeekdays :
          made' = Recurrence_init_str(text, forceset, Today, fwd)
    /\ UNCHANGED <<rule, text, forceset, gens, out, counted, copies, when, wd,
                   wdWhen>>

NextRepr == Repr \/ FromRepr

SpecRepr == InitRepr /\ [][NextRepr]_vars

\* The rule read back has the fields and selectors of the rule written.
SameRule(a, b) ==
    /\ Recurrence_frequency(a) = Recurrence_frequency(b)
    /\ Recurrence_interval(a) = Recurrence_interval(b)
    /\ Recurrence_dtstart(a) = Recurrence_dtstart(b)
    /\ Recurrence_until(a) = Recurrence_until(b)
    /\ Recurrence_count(a) = Recurrence_count(b)
    /\ Range(Recurrence_byweekday(a)) = Range(Recurrence_byweekday(b))
    /\ Range(Recurrence_bymonthday(a)) = Range(Recurrence_bymonthday(b))
    /\ Range(Recurrence_bymonth(a)) = Range(Recurrence_bymonth(b))
    /\ Range(Recurrence_bysetpos(a)) = Range(Recurrence_bysetpos(b))
    /\ Range(Recurrence_byyearday(a)) = Range(Recurrence_byyearday(b))
    /\ Range(Recurrence_byweekno(a)) = Range(Recurrence_byweekno(b))

\* C1: for every rule built from explicit field values (any optional count
\* including 0), constructing a Recurrence from the text repr() produces
\* gives a rule with identical frequency, interval, dtstart, until and
\* count and set-equal selectors.
C1_RoundTrip ==
    made.err # "unset" => (made.err = "" /\ SameRule(made.rule, rule))

\* The round trip of every rule whose count is not 0.
RoundTripUnlessCountZero ==
    (made.err # "unset" /\ rule._count # Some(0))
        => (made.err = "" /\ SameRule(made.rule, rule))

(***************************************************************************)
(* Iteration and counting                                                  *)
(***************************************************************************)
\* iter(recurrence) that hands out a generator already running, when
\* there is one, in place of a new one.
IterStart_Resume(rd) ==
    /\ gens[rd].st = "none"
    /\ rule._byweekno = <<>> /\ rule._byeaster = <<>>
    /\ \E o \in 0..copies :
          gens' = [gens EXCEPT ![rd] =
                     IF \E q \in Readers : gens[q].st = "run"
                     THEN [gens[CHOOSE q \in Readers : gens[q].st = "run"]
                              EXCEPT !.obj = o]
                     ELSE [GenStart(rule) EXCEPT !.obj = o]]
    /\ UNCHANGED <<rule, text, forceset, made, out, counted, copies, when, wd,
                   wdWhen>>

\* iter(recurrence): reader rd gets a generator of its own over the
\* Recurrence or one of its copies and runs it to the first pass of its
\* loop.
IterStart(rd) ==
    /\ gens[rd].st = "none"
    /\ rule._byweekno = <<>> /\ rule._byeaster = <<>>
    /\ \E o \in 0..copies :
          gens' = [gens EXCEPT ![rd] = [GenStart(rule) EXCEPT !.obj = o]]
    /\ UNCHANGED <<rule, text, forceset, made, out, counted, copies, when, wd,
                   wdWhen>>

\* One step of reader rd's generator.  A date it yields is handed to the
\* reader as occurence.date(); the generator's end writes rule._len.
IterStep(rd) ==
    /\ gens[rd].st = "run"
    /\ LET s == GenStep(rule, gens[rd])
       IN /\ rule' = s.rule
          /\ gens' = [gens EXCEPT ![rd] = s.gen]
          /\ out' = [out EXCEPT ![rd] =
                        IF IsNone(s.res) \/ rd = 0 THEN @
                        ELSE Append(@, Val(s.res))]
    /\ UNCHANGED <<text, forceset, made, counted, copies, when, wd, wdWhen>>

\* A caller that iterates: it asks for at most MaxYield dates.
Iterate(rd) ==
    \/ IterStart(rd)
    \/ (Len(out[rd]) < MaxYield /\ IterStep(rd))

\* getCount() -> self.rule.count(): when rule._len is not yet known the
\* rule is iterated to its end (by reader 0, which drops the dates), and
\* _len, which the generator's end has written, is returned.
GetCount ==
    \/ /\ ~IsNone(rule._len)
       /\ gens[0].st = "none"
       /\ counted = None
       /\ counted' = rule._len
       /\ UNCHANGED <<rule, text, forceset, made, gens, out, copies, when, wd,
                      wdWhen>>
    \/ /\ IsNone(rule._len)
       /\ counted = None
       /\ IterStart(0)
    \/ /\ counted = None
       /\ IterStep(0)
    \/ /\ gens[0].st = "done"
       /\ counted = None
       /\ counted' = rule._len
       /\ gens' = [gens EXCEPT ![0] = NoGen]
       /\ UNCHANGED <<rule, text, forceset, made, out, copies, when, wd,
                      wdWhen>>

\* The rule is bounded: callers count only rules that end.
Bounded(r) == ~IsNone(r._count) \/ ~IsNone(r._until)

\* Recurrence(recurrence): one more object that holds the same rule.
Copy ==
    /\ copies < MaxCopies
    /\ rule' = Recurrence_init_copy(rule)
    /\ copies' = copies + 1
    /\ UNCHANGED <<text, forceset, made, gens, out, counted, when, wd, wdWhen>>

\* No generator but rd's is running.
Alone(rd) == \A o \in Readers \ {rd} : gens[o].st # "run"

StartDates == {StartDate, Date(1990, 2, 28)}

\* The rules that are iterated: defaults only; weekdays, plain, n-th and
\* mixed; month days from either end with and without months, among them
\* days no month has; weekdays on given month days; and positions within
\* the period.
IterArgs ==
    {Args(f, s, i, c, u, None, None, None) :
        f \in {YEARLY, MONTHLY, WEEKLY, DAILY}, s \in StartDates,
        i \in Intervals, c \in Counts, u \in Untils}
    \cup
    {Args(f, StartDate, i, c, u, wds, None, ms) :
        f \in {YEARLY, MONTHLY, WEEKLY, DAILY}, i \in Intervals, c \in Counts,
        u \in Untils,
        wds \in {Some(<<TU>>), Some(<<MO, FR>>), Some(<<Weekday(1, 2)>>),
                 Some(<<Weekday(4, -1), Weekday(0, 1)>>)},
        ms \in {None, Some(<<2>>)}}
    \cup
    {Args(f, s, i, c, u, None, mds, ms) :
        f \in {YEARLY, MONTHLY}, s \in StartDates, i \in Intervals,
        c \in Counts, u \in Untils,
        mds \in {Some(<<1>>), Some(<<30>>), Some(<<-1, 15>>)},
        ms \in {None, Some(<<2>>), Some(<<3, 12>>)}}
    \cup
    {Args(f, StartDate, i, None, u, Some(<<MO, FR>>), mds, ms) :
        f \in {YEARLY, MONTHLY, WEEKLY, DAILY}, i \in Intervals, u \in Untils,
        mds \in {Some(<<1>>), Some(<<-1, 15>>)},
        ms \in {None, Some(<<3, 12>>)}}
    \cup
    {[Args(MONTHLY, StartDate, i, c, u, Some(<<MO, FR>>), None, None)
         EXCEPT !.bysetpos = sp] :
        i \in Intervals, c \in Counts, u \in Untils,
        sp \in {Some(<<-1>>), Some(<<2, 1>>)}}

InitIter ==
    /\ NoneMade /\ NoneIterated /\ NoneDescribed
    /\ rule \in {Recurrence_init_args(a) : a \in IterArgs}
    /\ text = <<>>
    /\ forceset = FALSE
    /\ wd = MO

\* One caller iterates, and getCount() is called before or after it.
NextIter ==
    \/ (Alone(1) /\ Iterate(1))
    \/ (Alone(0) /\ Bounded(rule) /\ GetCount)

SpecIter == InitIter /\ [][NextIter]_vars

\* The dates of s are strictly increasing.
StrictlyIncreasing(s) == \A i \in 1..(Len(s) - 1) : DateLT(s[i], s[i + 1])

\* C2: the dates a reader is handed by iterating a Recurrence are strictly
\* increasing (none repeated, none backwards), and the first of them is on
\* or after dtstart.
C2_IncreasingFromStart ==
    \A rd \in Readers :
        /\ StrictlyIncreasing(out[rd])
        /\ out[rd] # <<>> => DateLE(Recurrence_dtstart(rule), out[rd][1])

\* A reader has been handed MaxYield dates of a rule that picks the second
\* and the first of the period's weekdays, named in that order.
C2_Witness ==
    /\ rule._bysetpos = <<2, 1>>
    /\ rule._interval > 1
    /\ Len(out[1]) = MaxYield

\* The rule has a count and no until.
OnlyCount(r) == ~IsNone(r._count) /\ IsNone(r._until)

\* C3 as stated: a rule with only count set yields exactly count dates and
\* getCount() returns count, whatever the frequency, interval and selectors.
C3_AsStated ==
    OnlyCount(rule) =>
        /\ gens[1].st = "done" => Len(out[1]) = Val(rule._count)
        /\ ~IsNone(counted) => Val(counted) = Val(rule._count)

\* C3: a rule with only count set never yields more than count dates, and
\* getCount() returns the number of dates a full iteration yields.  That
\* number is count when the generator ends on its count; a generator that
\* runs past the last year first (the rule's selectors match no more
\* dates, as BYMONTH=2;BYMONTHDAY=30) has yielded at most count.
C3_CountOrExhausted ==
    OnlyCount(rule) =>
        /\ \A rd \in Readers :
              /\ Len(out[rd]) <= Val(rule._count)
              /\ gens[rd].st = "done" =>
                    \/ gens[rd].why = "count"
                          /\ gens[rd].total = Val(rule._count)
                    \/ gens[rd].why = "maxyear"
                          /\ gens[rd].total <= Val(rule._count)
        /\ gens[1].st = "done" =>
              /\ Len(out[1]) = gens[1].total
              /\ rule._len = Some(gens[1].total)
        /\ ~IsNone(counted) =>
              /\ Val(counted) <= Val(rule._count)
              /\ gens[1].st = "done" => Val(counted) = Len(out[1])

\* A rule of MaxCount weekday occurrences has been iterated to its end and
\* counted.
C3_Witness ==
    /\ OnlyCount(rule)
    /\ rule._count = Some(MaxCount)
    /\ rule._byweekday # <<>>
    /\ gens[1].st = "done" /\ gens[1].why = "count"
    /\ Len(out[1]) = MaxCount
    /\ counted = Some(MaxCount)

(***************************************************************************)
(* Several readers of one rule                                             *)
(***************************************************************************)
\* Rules iterated by several readers at once.
ReadersArgs ==
    {Args(f, StartDate, i, c, None, wds, None, None) :
        f \in {YEARLY, MONTHLY, WEEKLY, DAILY}, i \in {1, MaxInterval},
        c \in {None, Some(2)}, wds \in {None, Some(<<MO, FR>>)}}

InitReaders ==
    /\ NoneMade /\ NoneIterated /\ NoneDescribed
    /\ rule \in {Recurrence_init_args(a) : a \in ReadersArgs}
    /\ text = <<>>
    /\ forceset = FALSE
    /\ wd = MO

\* Two readers iterate the Recurrence or its copy, each at its own pace,
\* while copies are made and getCount() runs.
NextReaders ==
    \/ \E rd \in {1, 2} : Iterate(rd)
    \/ Copy
    \/ (Bounded(rule) /\ GetCount)

SpecReaders == InitReaders /\ [][NextReaders]_vars

\* Two readers have been handed the same dates in the same order, as far
\* as each has got.
SameDates(a, b) == IsPrefix(out[a], out[b]) \/ IsPrefix(out[b], out[a])

\* C4: iterations of one Recurrence, or of a Recurrence and its copy,
\* advanced in any interleaving, each produce the same dates in the same
\* order from the start, and no step changes an accessor value of the rule.
C4_IndependentReaders ==
    /\ [](\A a \in Readers, b \in Readers : SameDates(a, b))
    /\ [][Accessors(rule') = Accessors(rule)]_vars

\* One reader iterates the Recurrence and the other its copy, both are
\* mid-way with different numbers of dates, and getCount() has returned in
\* the meantime.
C4_Witness ==
    /\ gens[1].st = "run" /\ gens[2].st = "run"
    /\ gens[1].obj # gens[2].obj
    /\ Len(out[1]) >= 2 /\ Len(out[2]) >= 1
    /\ Len(out[1]) # Len(out[2])
    /\ ~IsNone(counted)

====
